---- MODULE Spec2Model ----
(***************************************************************************)
(* A state-machine model of the XsensSuit device adapter                   *)
(* (devices/XsensSuit/src/XsensSuit.cpp).                                  *)
(*                                                                         *)
(* The adapter owns a vendor driver object (a null pointer until open      *)
(* creates one), seven name-to-index tables and the sensor objects the     *)
(* tables point to.  The vendor driver itself is external: every value it  *)
(* returns (success booleans, label lists, data samples, status) is an     *)
(* input chosen from a small set.                                          *)
(***************************************************************************)
EXTENDS Naturals, Integers, Sequences, FiniteSets, TLC

VARIABLES
    driver,      \* pImpl->driver: the vendor driver object, or none
    sensorMaps,  \* the seven std::map tables of impl, by table name
    sensors,     \* the sensor objects created by open (m_name, m_status)
    pc,          \* "idle", or "calibrate" while driver->calibrate() runs
    hist,        \* openOk: some call of open has returned true
    last,        \* the last call made on the adapter and what it gave back
    threads      \* the control operations two threads run at the same time

vars == <<driver, sensorMaps, sensors, pc, hist, last, threads>>

(***************************************************************************)
(* Bounds of the model: the longest list of sensor labels the vendor       *)
(* driver reports, and the number of values a field of a sample takes.     *)
(***************************************************************************)
MaxSensorLabels == 2
MaxVal == 2

\* The labels the vendor driver reports.  A list of sensor labels may name
\* a label twice and two drivers may report the labels in different orders;
\* the suit has one link and one joint.
SensorLabelSet == {"Pelvis", "T8"}

SeqsUpTo(S, n) == UNION {[1..k -> S] : k \in 0..n}

SensorLabelLists == SeqsUpTo(SensorLabelSet, MaxSensorLabels)
LinkLabelLists == {<<"Pelvis">>}
JointLabelLists == {<<"jL5S1">>}

Vals == 1..MaxVal

(***************************************************************************)
(* Enumerations and constant tables of the implementation.                 *)
(***************************************************************************)
SensorStatus == {"Unknown", "Ok", "Error", "Calibrating", "WaitingForFirstRead"}

DriverStatus == {"Disconnected", "Unknown", "Recording", "Calibrating",
                 "CalibratedAndReadyToRecord", "Connected", "Scanning"}

\* impl::calibrationQualities: label -> xsensmvn::CalibrationQuality
calibrationQualities ==
    [l \in {"Unknown", "Good", "Acceptable", "Poor", "Failed"} |->
        CASE l = "Unknown" -> "UNKNOWN"
          [] l = "Good" -> "GOOD"
          [] l = "Acceptable" -> "ACCEPTABLE"
          [] l = "Poor" -> "POOR"
          [] l = "Failed" -> "FAILED"]

\* impl::allowedBodyDimensions
allowedBodyDimensions ==
    <<"ankleHeight", "armSpan", "bodyHeight", "footSize", "hipHeight",
      "hipWidth", "kneeHeight", "shoulderWidth", "shoeSoleHeight">>

\* driverToSensorStatusMap with a calibrated driver shown as waiting for its
\* first read.
CalibratedShownAsWaiting ==
    [s \in DriverStatus |->
        CASE s = "Disconnected" -> "Error"
          [] s = "Unknown" -> "Unknown"
          [] s = "Recording" -> "Ok"
          [] s = "Calibrating" -> "Calibrating"
          [] s = "CalibratedAndReadyToRecord" -> "WaitingForFirstRead"
          [] s = "Connected" -> "Error"
          [] s = "Scanning" -> "Error"]

\* impl::driverToSensorStatusMap
driverToSensorStatusMap ==
    [s \in DriverStatus |->
        CASE s = "Disconnected" -> "Error"
          [] s = "Unknown" -> "Unknown"
          [] s = "Recording" -> "Ok"
          [] s = "Calibrating" -> "Calibrating"
          [] s = "CalibratedAndReadyToRecord" -> "Error"
          [] s = "Connected" -> "Error"
          [] s = "Scanning" -> "Error"]

\* The seven tables of impl, by the names the source gives them.
MapNames == {"freeBodyAccerlerationSensorsMap", "positionSensorsMap",
             "orientationSensorsMap", "poseSensorsMap", "magnetometersMap",
             "virtualLinkKinSensorsMap", "virtualJointKinSensorsMap"}

getWearableName == "XsensSuit_"

\* sensor::I<Type>::getPrefix() of the wearable interface headers, by table.
getPrefix(m) ==
    CASE m = "freeBodyAccerlerationSensorsMap" -> "fbAcc_"
      [] m = "positionSensorsMap" -> "pos_"
      [] m = "orientationSensorsMap" -> "orient_"
      [] m = "poseSensorsMap" -> "pose_"
      [] m = "magnetometersMap" -> "mag_"
      [] m = "virtualLinkKinSensorsMap" -> "vLink_"
      [] m = "virtualJointKinSensorsMap" -> "vSJoint_"

\* fbasPrefix, posPrefix, ... of open: wearable name followed by type prefix.
Prefix(m) == getWearableName \o getPrefix(m)

(***************************************************************************)
(* The configuration object handed to open (yarp::os::Searchable).  Every  *)
(* key is an optional: has says whether check(key) succeeds, val is what   *)
(* find(key) gives when it does.                                           *)
(***************************************************************************)
Absent(v) == [has |-> FALSE, val |-> v]
Present(v) == [has |-> TRUE, val |-> v]

NoGroup == [k \in {} |-> 0]

\* output-stream-configuration: absent, or any choice of its three keys.
StreamGroups ==
    {Absent([enable_joint_data |-> Absent(FALSE),
             enable_link_data |-> Absent(FALSE),
             enable_sensor_data |-> Absent(FALSE)])}
    \cup {Present([enable_joint_data |-> j, enable_link_data |-> l,
                   enable_sensor_data |-> s]) :
            j \in {Absent(FALSE), Present(TRUE), Present(FALSE)},
            l \in {Absent(FALSE), Present(TRUE), Present(FALSE)},
            s \in {Absent(FALSE), Present(TRUE), Present(FALSE)}}

\* body-dimensions: absent, or a list of name/value pairs.
BodyGroups ==
    {Absent(NoGroup),
     Present([k \in {"ankleHeight", "hipWidth", "tailLength"} |->
                 CASE k = "ankleHeight" -> 8
                   [] k = "hipWidth" -> -1
                   [] k = "tailLength" -> 3])}

QualityLabels == {"Unknown", "Good", "Acceptable", "Poor", "Failed", "Excellent"}

\* Every configuration of the model: each key present or absent.
AllConfigs ==
    [xsens_rundeps_dir : {Absent(""), Present("C:/xsens/rundeps")},
     suit_config : {Absent(""), Present("FullBody")},
     acquisition_scenario : {Absent(""), Present("NoLevel")},
     default_calibration_type : {Absent(""), Present("Npose")},
     minimum_calibration_quality_required :
         {Absent("")} \cup {Present(q) : q \in QualityLabels},
     scan_timeout : {Absent(0), Present(10)},
     body_dimensions : BodyGroups,
     output_stream_configuration : StreamGroups]

\* The configuration with no key at all.
NoConfig ==
    [xsens_rundeps_dir |-> Absent(""),
     suit_config |-> Absent(""),
     acquisition_scenario |-> Absent(""),
     default_calibration_type |-> Absent(""),
     minimum_calibration_quality_required |-> Absent(""),
     scan_timeout |-> Absent(0),
     body_dimensions |-> Absent(NoGroup),
     output_stream_configuration |->
         Absent([enable_joint_data |-> Absent(FALSE),
                 enable_link_data |-> Absent(FALSE),
                 enable_sensor_data |-> Absent(FALSE)])]

\* The configuration with the two required keys and nothing else.
MinimalConfig ==
    [NoConfig EXCEPT !.xsens_rundeps_dir = Present("C:/xsens/rundeps"),
                     !.suit_config = Present("FullBody")]

\* The configurations open is called with at any time: the minimal one, and
\* the minimal one with one or both required keys taken away.
Configs ==
    {MinimalConfig,
     [MinimalConfig EXCEPT !.xsens_rundeps_dir = Absent("")],
     [MinimalConfig EXCEPT !.suit_config = Absent("")],
     NoConfig}

(***************************************************************************)
(* open, lines 556-666: reading the configuration into the                 *)
(* xsensmvn::DriverConfiguration handed to the vendor driver.              *)
(***************************************************************************)

\* RequiredFound without the test of suit-config.
RundepsFound(config) ==
    config.xsens_rundeps_dir.has

\* The two REQUIRED parameters are both found (lines 557 and 564).
RequiredFound(config) ==
    config.xsens_rundeps_dir.has /\ config.suit_config.has

\* The local acquisitionScenario after lines 572-590.  It is assigned from
\* acquisition-scenario first, and then again, at line 589, from
\* default-calibration-type when that key is present.
ReadAcquisitionScenario(config) ==
    LET afterScenario ==
            IF ~config.acquisition_scenario.has
                THEN ""
                ELSE config.acquisition_scenario.val
    IN  IF ~config.default_calibration_type.has
            THEN afterScenario
            ELSE config.default_calibration_type.val

\* The local defaultCalibrationType after lines 583-590: a default
\* constructed string, set to "" when the key is absent and never assigned
\* when the key is present.
ReadDefaultCalibrationType(config) ==
    IF ~config.default_calibration_type.has THEN "" ELSE ""

\* ReadMinCalibrationQuality with UNKNOWN, not POOR, for an invalid label.
UnknownForInvalidQuality(config) ==
    IF ~config.minimum_calibration_quality_required.has
        THEN calibrationQualities["Poor"]
        ELSE LET tmpLabel == config.minimum_calibration_quality_required.val
             IN  IF tmpLabel \in DOMAIN calibrationQualities
                     THEN calibrationQualities[tmpLabel]
                     ELSE calibrationQualities["Unknown"]

\* minCalibrationQualityRequired after lines 594-612.
ReadMinCalibrationQuality(config) ==
    IF ~config.minimum_calibration_quality_required.has
        THEN calibrationQualities["Poor"]
        ELSE LET tmpLabel == config.minimum_calibration_quality_required.val
             IN  IF tmpLabel \in DOMAIN calibrationQualities
                     THEN calibrationQualities[tmpLabel]
                     ELSE calibrationQualities["Poor"]

\* scanTimeout after lines 616-623.
ReadScanTimeout(config) ==
    IF ~config.scan_timeout.has THEN -1 ELSE config.scan_timeout.val

\* bodyDimensionSet.check(abd, Value(-1.0)).asDouble() of line 636.
BodyDimensionOr(config, abd) ==
    IF config.body_dimensions.has /\ abd \in DOMAIN config.body_dimensions.val
        THEN config.body_dimensions.val[abd]
        ELSE -1

\* subjectBodyDimensions after lines 628-640.
ReadBodyDimensions(config) ==
    LET given == {i \in DOMAIN allowedBodyDimensions :
                     BodyDimensionOr(config, allowedBodyDimensions[i]) # -1}
        names == {allowedBodyDimensions[i] : i \in given}
    IN  [abd \in names |-> BodyDimensionOr(config, abd)]

\* StreamFlagOr that takes the default only when the whole group is absent.
FalseForAbsentKey(config, flag, default) ==
    IF ~config.output_stream_configuration.has
        THEN default
        ELSE flag.has /\ flag.val

\* streamGroup.check(key, Value(default)).asBool() of lines 652-657.
StreamFlagOr(config, flag, default) ==
    IF config.output_stream_configuration.has /\ flag.has
        THEN flag.val
        ELSE default

\* outputStreamConfig after lines 644-657.
ReadOutputStreamConfig(config) ==
    LET streamGroup == config.output_stream_configuration.val
    IN  [enableJointData |->
             StreamFlagOr(config, streamGroup.enable_joint_data, FALSE),
         enableLinkData |->
             StreamFlagOr(config, streamGroup.enable_link_data, TRUE),
         enableSensorData |->
             StreamFlagOr(config, streamGroup.enable_sensor_data, TRUE)]

\* driverConfig of lines 659-666.
DriverConfiguration(config) ==
    [rundepsFolder |-> config.xsens_rundeps_dir.val,
     suitConfiguration |-> config.suit_config.val,
     acquisitionScenario |-> ReadAcquisitionScenario(config),
     defaultCalibrationType |-> ReadDefaultCalibrationType(config),
     minCalibrationQualityRequired |-> ReadMinCalibrationQuality(config),
     scanTimeout |-> ReadScanTimeout(config),
     subjectBodyDimensions |-> ReadBodyDimensions(config),
     outputStreamConfig |-> ReadOutputStreamConfig(config)]

\* The configuration of a driver that does not exist.
NoDriverConfiguration ==
    [rundepsFolder |-> "",
     suitConfiguration |-> "",
     acquisitionScenario |-> "",
     defaultCalibrationType |-> "",
     minCalibrationQualityRequired |-> "UNKNOWN",
     scanTimeout |-> 0,
     subjectBodyDimensions |-> NoGroup,
     outputStreamConfig |-> [enableJointData |-> FALSE,
                             enableLinkData |-> FALSE,
                             enableSensorData |-> FALSE]]

\* impl(): driver(nullptr)
NoDriver ==
    [exists |-> FALSE,
     config |-> NoDriverConfiguration,
     sensorLabels |-> <<>>,
     linkLabels |-> <<>>,
     jointLabels |-> <<>>]

\* new xsensmvn::XSensMVNDriver(driverConfig), with the label lists this
\* driver reports.
NewDriver(config, sensorNames, linkNames, jointNames) ==
    [exists |-> TRUE,
     config |-> DriverConfiguration(config),
     sensorLabels |-> sensorNames,
     linkLabels |-> linkNames,
     jointLabels |-> jointNames]

(***************************************************************************)
(* The tables and the sensor objects.                                      *)
(*                                                                         *)
(* sensors is the heap of sensor objects, by address.  emplace keeps at    *)
(* most one object per table and key (the object made for a key that is    *)
(* already there is destroyed at once), so the model takes the pair        *)
(* <<table, key>> as the address of the object made for it.  A table maps  *)
(* a name to driverToDeviceSensors{xsSensor, driverIndex}: xsSensor is the *)
(* address of the object, driverIndex is zero-based as in the source.      *)
(***************************************************************************)
NullPtr == <<"", "">>

EmptyMap == [k \in {} |-> [xsSensor |-> NullPtr, driverIndex |-> 0]]

EmptyHeap == [a \in {} |-> [m_name |-> "", m_status |-> "Unknown"]]

\* The constructor of a sensor class: the name given, status Unknown.
NewSensor(aName) ==
    [m_name |-> aName, m_status |-> "Unknown"]

\* Emplace with the index counted from one.
EmplaceOneBased(st, m, key, s) ==
    IF key \in DOMAIN st.maps[m]
        THEN st
        ELSE [maps |-> [st.maps EXCEPT ![m] =
                           @ @@ (key :> [xsSensor |-> <<m, key>>,
                                         driverIndex |-> s + 1])],
              heap |-> st.heap @@ (<<m, key>> :> NewSensor(key))]

\* std::map::emplace(key, {make_shared<Sensor>(pImpl, key), s}): an entry is
\* inserted only when the key is new; otherwise the object just made is
\* destroyed with the rejected entry.  st is [maps, heap].
Emplace(st, m, key, s) ==
    IF key \in DOMAIN st.maps[m]
        THEN st
        ELSE [maps |-> [st.maps EXCEPT ![m] =
                           @ @@ (key :> [xsSensor |-> <<m, key>>,
                                         driverIndex |-> s])],
              heap |-> st.heap @@ (<<m, key>> :> NewSensor(key))]

\* One turn of the loop of lines 685-713.
EmplaceSensor(st, label, s) ==
    LET st1 == Emplace(st, "freeBodyAccerlerationSensorsMap",
                       Prefix("freeBodyAccerlerationSensorsMap") \o label, s)
        st2 == Emplace(st1, "positionSensorsMap",
                       Prefix("positionSensorsMap") \o label, s)
        st3 == Emplace(st2, "orientationSensorsMap",
                       Prefix("orientationSensorsMap") \o label, s)
        st4 == Emplace(st3, "poseSensorsMap",
                       Prefix("poseSensorsMap") \o label, s)
    IN  Emplace(st4, "magnetometersMap", Prefix("magnetometersMap") \o label, s)

\* The loop of lines 685-713, from index s on.
RECURSIVE SensorLoop(_, _, _)
SensorLoop(st, sensorNames, s) ==
    IF s >= Len(sensorNames)
        THEN st
        ELSE SensorLoop(EmplaceSensor(st, sensorNames[s + 1], s), sensorNames, s + 1)

\* The loops of lines 716-723 and 726-733, from index s on.
RECURSIVE LabelLoop(_, _, _, _)
LabelLoop(st, m, names, s) ==
    IF s >= Len(names)
        THEN st
        ELSE LabelLoop(Emplace(st, m, Prefix(m) \o names[s + 1], s), m, names, s + 1)

\* Lines 675-733: all tables filled from the driver's three label lists.
FillTables(st, sensorNames, linkNames, jointNames) ==
    LabelLoop(LabelLoop(SensorLoop(st, sensorNames, 0),
                        "virtualLinkKinSensorsMap", linkNames, 0),
              "virtualJointKinSensorsMap", jointNames, 0)

\* The objects some table points to.
Tabled(maps) ==
    UNION {{maps[m][k].xsSensor : k \in DOMAIN maps[m]} : m \in MapNames}

\* impl::setAllSensorStates: setStatus(aStatus) on the object of every entry
\* of every table.
setAllSensorStates(heap, maps, aStatus) ==
    LET tabled == Tabled(maps)
    IN  [a \in DOMAIN heap |->
            IF a \in tabled
                THEN [heap[a] EXCEPT !.m_status = aStatus]
                ELSE heap[a]]

(***************************************************************************)
(* What a call gave back.  ok is the boolean returned; fault is "none",    *)
(* "out_of_range" (an exception left the call), "null_driver" (the call    *)
(* dereferenced the null driver pointer) or "dangling_reference" (the call *)
(* read a destroyed sample and was ended); calls lists the vendor driver's  *)
(* methods the call reached, in order; answer is the boolean the vendor    *)
(* driver returned to a control operation.  The other fields are the       *)
(* arguments and results of the call: config is the argument of open,      *)
(* index the driverIndex an accessor found for its sensor (-1: none).      *)
(***************************************************************************)
Unset == <<"unset", 0>>

NoSample == [name |-> "", v |-> 0]

NoCall ==
    [op |-> "none", self |-> NullPtr, arg |-> "", ok |-> FALSE,
     fault |-> "none", calls |-> <<>>, out0 |-> <<>>, out |-> <<>>,
     size |-> 0, sample |-> NoSample, obj |-> NullPtr, objs |-> <<>>,
     status |-> "", time |-> 0, index |-> -1, answer |-> FALSE,
     config |-> NoConfig]

NoHist == [openOk |-> FALSE]

\* The threads that call control operations at the same time, and a thread
\* that has called nothing yet.  at is the thread's position in its call:
\* "idle", "setting" (in the loops of setAllSensorStates, with todo the
\* objects still to visit, status the status to set and then the position
\* after the loops), "driver" (in the vendor driver's method), "returned".
Threads == {"t1", "t2"}

NoThreadCall ==
    [op |-> "none", at |-> "idle", status |-> "", todo |-> <<>>,
     then |-> "", ok |-> FALSE]

Init ==
    /\ driver = NoDriver
    /\ sensorMaps = [m \in MapNames |-> EmptyMap]
    /\ sensors = EmptyHeap
    /\ pc = "idle"
    /\ hist = NoHist
    /\ last = NoCall
    /\ threads = [t \in Threads |-> NoThreadCall]

(***************************************************************************)
(* XsensSuit::open.  connected is what configureAndConnect returns; the    *)
(* three lists are the labels the new driver reports.                      *)
(***************************************************************************)
\* Lines 668-673 when configureAndConnect returns false.  The new driver
\* replaces the old one; having no suit, it reports no label and no data.
OpenNotConnected(config) ==
    /\ driver' = NewDriver(config, <<>>, <<>>, <<>>)
    /\ last' = [NoCall EXCEPT !.op = "open",
                              !.config = config,
                              !.calls = <<"XSensMVNDriver",
                                          "configureAndConnect">>]
    /\ UNCHANGED <<threads, sensorMaps, sensors, hist>>

\* Lines 668-735 when configureAndConnect returns true.
OpenConnected(config, sensorNames, linkNames, jointNames) ==
    LET st == FillTables([maps |-> sensorMaps, heap |-> sensors],
                         sensorNames, linkNames, jointNames)
    IN  /\ driver' = NewDriver(config, sensorNames, linkNames, jointNames)
        /\ sensorMaps' = st.maps
        /\ sensors' = st.heap
        /\ hist' = [hist EXCEPT !.openOk = TRUE]
        /\ threads' = threads
        /\ last' = [NoCall EXCEPT !.op = "open",
                                  !.config = config,
                                  !.ok = TRUE,
                                  !.calls = <<"XSensMVNDriver",
                                              "configureAndConnect",
                                              "getSuitSensorLabels",
                                              "getSuitLinkLabels",
                                              "getSuitJointLabels">>]

OpenWith(config) ==
    /\ pc = "idle"
    /\ pc' = pc
    /\ IF ~RequiredFound(config)
           THEN /\ last' = [NoCall EXCEPT !.op = "open", !.config = config]
                /\ UNCHANGED <<threads, driver, sensorMaps, sensors, hist>>
           ELSE \E connected \in BOOLEAN :
                   IF ~connected
                       THEN OpenNotConnected(config)
                       ELSE \E sensorNames \in SensorLabelLists,
                               linkNames \in LinkLabelLists,
                               jointNames \in JointLabelLists :
                                OpenConnected(config, sensorNames, linkNames,
                                              jointNames)

Open ==
    \E config \in Configs : OpenWith(config)

\* close that also empties the tables.
CloseClearingTables ==
    /\ pc = "idle"
    /\ last' = [NoCall EXCEPT !.op = "close", !.ok = TRUE]
    /\ sensorMaps' = [m \in MapNames |-> EmptyMap]
    /\ UNCHANGED <<threads, driver, sensors, pc, hist>>

\* XsensSuit::close
Close ==
    /\ pc = "idle"
    /\ last' = [NoCall EXCEPT !.op = "close", !.ok = TRUE]
    /\ UNCHANGED <<threads, driver, sensorMaps, sensors, pc, hist>>

(***************************************************************************)
(* IXsensMVNControl: calibration and acquisition.  success is what the     *)
(* vendor driver returns.                                                  *)
(***************************************************************************)

\* The early return taken by every control operation while driver is null.
NullDriverReturn(op) ==
    /\ pc = "idle"
    /\ ~driver.exists
    /\ last' = [NoCall EXCEPT !.op = op]
    /\ UNCHANGED <<threads, driver, sensorMaps, sensors, pc, hist>>

\* calibrate up to the call of driver->calibrate (lines 787-793).
CalibrateCall ==
    /\ pc = "idle"
    /\ driver.exists
    /\ sensors' = setAllSensorStates(sensors, sensorMaps, "Calibrating")
    /\ pc' = "calibrate"
    /\ UNCHANGED <<threads, driver, sensorMaps, hist, last>>

\* CalibrateStatus that leaves Calibrating after a calibration that worked.
CalibratingKept(calibrationSuccess) ==
    IF calibrationSuccess THEN "Calibrating" ELSE "Error"

\* The status calibrate leaves, by the driver's answer (lines 795-800).
CalibrateStatus(calibrationSuccess) ==
    IF calibrationSuccess THEN "WaitingForFirstRead" ELSE "Error"

\* calibrate from the return of driver->calibrate on (lines 793-802).
CalibrateReturn ==
    /\ pc = "calibrate"
    /\ \E calibrationSuccess \in BOOLEAN :
        /\ sensors' = setAllSensorStates(sensors, sensorMaps,
                                         CalibrateStatus(calibrationSuccess))
        /\ last' = [NoCall EXCEPT !.op = "calibrate",
                                  !.answer = calibrationSuccess,
                                  !.ok = calibrationSuccess,
                                  !.calls = <<"calibrate">>]
    /\ pc' = "idle"
    /\ UNCHANGED <<threads, driver, sensorMaps, hist>>

\* The status abortCalibration leaves (lines 813-818).
AbortCalibrationStatus(abortCalibrationSuccess) ==
    IF abortCalibrationSuccess THEN "Unknown" ELSE "Error"

AbortCalibration ==
    /\ pc = "idle"
    /\ driver.exists
    /\ \E abortCalibrationSuccess \in BOOLEAN :
        /\ sensors' = setAllSensorStates(
                          sensors, sensorMaps,
                          AbortCalibrationStatus(abortCalibrationSuccess))
        /\ last' = [NoCall EXCEPT !.op = "abortCalibration",
                                  !.answer = abortCalibrationSuccess,
                                  !.ok = abortCalibrationSuccess,
                                  !.calls = <<"abortCalibration">>]
    /\ UNCHANGED <<threads, driver, sensorMaps, pc, hist>>

\* The status startAcquisition leaves (lines 832-837).
StartAcquisitionStatus(startAcquisitionSuccess) ==
    IF startAcquisitionSuccess THEN "Ok" ELSE "WaitingForFirstRead"

StartAcquisition ==
    /\ pc = "idle"
    /\ driver.exists
    /\ \E startAcquisitionSuccess \in BOOLEAN :
        /\ sensors' = setAllSensorStates(
                          sensors, sensorMaps,
                          StartAcquisitionStatus(startAcquisitionSuccess))
        /\ last' = [NoCall EXCEPT !.op = "startAcquisition",
                                  !.answer = startAcquisitionSuccess,
                                  !.ok = startAcquisitionSuccess,
                                  !.calls = <<"startAcquisition">>]
    /\ UNCHANGED <<threads, driver, sensorMaps, pc, hist>>

\* The status stopAcquisition leaves (lines 849-854).
StopAcquisitionStatus(stopAcquisitionSuccess) ==
    IF stopAcquisitionSuccess THEN "WaitingForFirstRead" ELSE "Ok"

StopAcquisition ==
    /\ pc = "idle"
    /\ driver.exists
    /\ \E stopAcquisitionSuccess \in BOOLEAN :
        /\ sensors' = setAllSensorStates(
                          sensors, sensorMaps,
                          StopAcquisitionStatus(stopAcquisitionSuccess))
        /\ last' = [NoCall EXCEPT !.op = "stopAcquisition",
                                  !.answer = stopAcquisitionSuccess,
                                  !.ok = stopAcquisitionSuccess,
                                  !.calls = <<"stopAcquisition">>]
    /\ UNCHANGED <<threads, driver, sensorMaps, pc, hist>>

ControlOps == {"calibrate", "abortCalibration", "startAcquisition",
               "stopAcquisition"}

\* A control operation called while driver is null.
ControlWithoutDriver ==
    \E op \in ControlOps : NullDriverReturn(op)

(***************************************************************************)
(* IXsensMVNControl: body dimensions (lines 756-781).  The calls forward   *)
(* to the vendor driver, which also writes the output argument.            *)
(***************************************************************************)
BodyDimensionOps == {"setBodyDimensions", "getBodyDimensions", "getBodyDimension"}

BodyDimensionCall ==
    /\ pc = "idle"
    /\ \E op \in BodyDimensionOps :
        IF ~driver.exists
            THEN last' = [NoCall EXCEPT !.op = op]
            ELSE \E success \in BOOLEAN :
                    last' = [NoCall EXCEPT !.op = op, !.answer = success,
                                           !.ok = success,
                                           !.calls = <<op>>]
    /\ UNCHANGED <<threads, driver, sensorMaps, sensors, pc, hist>>

(***************************************************************************)
(* getStatus, getTimeStamp, getLastInputStamp (lines 746-750, 872-881).    *)
(* None of them tests the driver pointer: with no driver the call          *)
(* dereferences a null pointer and anything may come back.                 *)
(***************************************************************************)
GetStatus ==
    /\ pc = "idle"
    /\ IF ~driver.exists
           THEN \E garbage \in SensorStatus \cup {""} :
                   last' = [NoCall EXCEPT !.op = "getStatus",
                                          !.fault = "null_driver",
                                          !.status = garbage]
           ELSE \E driverStatus \in DriverStatus :
                   last' = [NoCall EXCEPT
                               !.op = "getStatus",
                               !.ok = TRUE,
                               !.calls = <<"getStatus">>,
                               !.arg = driverStatus,
                               !.status = driverToSensorStatusMap[driverStatus]]
    /\ UNCHANGED <<threads, driver, sensorMaps, sensors, pc, hist>>

TimeStampOps == {"getTimeStamp", "getLastInputStamp"}

GetTimeStamp ==
    /\ pc = "idle"
    /\ \E op \in TimeStampOps :
        IF ~driver.exists
            THEN \E garbage \in {0} \cup Vals :
                    last' = [NoCall EXCEPT !.op = op,
                                           !.fault = "null_driver",
                                           !.time = garbage]
            ELSE \E systemTime \in Vals :
                    last' = [NoCall EXCEPT !.op = op,
                                           !.ok = TRUE,
                                           !.calls = <<"getTimeStamps">>,
                                           !.time = systemTime]
    /\ UNCHANGED <<threads, driver, sensorMaps, sensors, pc, hist>>

(***************************************************************************)
(* The typed getters by name (lines 965-1067) and getSensors (900-963).    *)
(***************************************************************************)

\* The name of the getter that reads table m.
GetterOf(m) ==
    CASE m = "freeBodyAccerlerationSensorsMap" -> "getFreeBodyAccelerationSensor"
      [] m = "positionSensorsMap" -> "getPositionSensor"
      [] m = "orientationSensorsMap" -> "getOrientationSensor"
      [] m = "poseSensorsMap" -> "getPoseSensor"
      [] m = "magnetometersMap" -> "getMagnetometer"
      [] m = "virtualLinkKinSensorsMap" -> "getVirtualLinkKinSensor"
      [] m = "virtualJointKinSensorsMap" -> "getVirtualSphericalJointKinSensor"

\* SensorByName that looks every name up in the table of position sensors.
PositionSensorByName(maps, m, name) ==
    IF name \notin DOMAIN maps["positionSensorsMap"]
        THEN NullPtr
        ELSE maps["positionSensorsMap"][name].xsSensor

\* What the getter of table m returns for name: nullptr when find(name) is
\* end(), the entry's xsSensor otherwise.
SensorByName(maps, m, name) ==
    IF name \notin DOMAIN maps[m] THEN NullPtr ELSE maps[m][name].xsSensor

\* The names the getter of table m is asked for: the keys of the table, a
\* name of a sensor of another type, a bare label.
NamesAsked(m) ==
    DOMAIN sensorMaps[m]
        \cup {IF m = "poseSensorsMap"
                  THEN Prefix("orientationSensorsMap") \o "Pelvis"
                  ELSE Prefix("poseSensorsMap") \o "Pelvis",
              "Pelvis"}

GetSensorByName ==
    /\ pc = "idle"
    /\ \E m \in MapNames :
        \E name \in NamesAsked(m) :
            last' = [NoCall EXCEPT
                        !.op = GetterOf(m),
                        !.arg = name,
                        !.ok = SensorByName(sensorMaps, m, name) # NullPtr,
                        !.obj = SensorByName(sensorMaps, m, name)]
    /\ UNCHANGED <<threads, driver, sensorMaps, sensors, pc, hist>>

\* sensor::SensorType of the getSensors switch, by the table it reads; the
\* types the switch leaves to default have no table.
SensorTypes ==
    [t \in {"FreeBodyAccelerationSensor", "PositionSensor", "OrientationSensor",
            "PoseSensor", "Magnetometer", "VirtualLinkKinSensor",
            "VirtualSphericalJointKinSensor"} |->
        CASE t = "FreeBodyAccelerationSensor" -> "freeBodyAccerlerationSensorsMap"
          [] t = "PositionSensor" -> "positionSensorsMap"
          [] t = "OrientationSensor" -> "orientationSensorsMap"
          [] t = "PoseSensor" -> "poseSensorsMap"
          [] t = "Magnetometer" -> "magnetometersMap"
          [] t = "VirtualLinkKinSensor" -> "virtualLinkKinSensorsMap"
          [] t = "VirtualSphericalJointKinSensor" -> "virtualJointKinSensorsMap"]

OtherSensorTypes == {"Accelerometer", "Gyroscope"}

\* The characters of the keys, in the order of their codes.
CharOrder == "0123456789ABCDEFGHIJKLMNOPQRSTUVWXYZ_abcdefghijklmnopqrstuvwxyz"

\* The place of each character in that order.
CharCode ==
    [c \in {SubSeq(CharOrder, i, i) : i \in 1..Len(CharOrder)} |->
        CHOOSE i \in 1..Len(CharOrder) : SubSeq(CharOrder, i, i) = c]

\* a < b for the strings a and b read from position i on, the characters
\* before i being equal: the first characters that differ decide, and a
\* string that ends first comes first.
RECURSIVE LessFrom(_, _, _)
LessFrom(a, b, i) ==
    IF i > Len(b)
        THEN FALSE
        ELSE IF i > Len(a)
            THEN TRUE
            ELSE LET ca == SubSeq(a, i, i)
                     cb == SubSeq(b, i, i)
                 IN  IF ca = cb
                         THEN LessFrom(a, b, i + 1)
                         ELSE CharCode[ca] < CharCode[cb]

\* std::less<std::string>, the order of the keys of a std::map.
StringLess(a, b) == LessFrom(a, b, 1)

\* for (const auto& e : map) outVec.push_back(e.second.xsSensor): the
\* entries of a table, one after the other, in ascending order of the keys.
RECURSIVE PushAll(_, _)
PushAll(map, keys) ==
    IF keys = {}
        THEN <<>>
        ELSE LET k == CHOOSE k \in keys : \A j \in keys \ {k} : StringLess(k, j)
             IN  <<map[k].xsSensor>> \o PushAll(map, keys \ {k})

\* SensorsOfType whose case PoseSensor walks the table of orientation sensors.
OrientationSensorsForPose(maps, aType) ==
    IF aType \in DOMAIN SensorTypes
        THEN LET m == IF aType = "PoseSensor"
                          THEN "orientationSensorsMap"
                          ELSE SensorTypes[aType]
             IN  PushAll(maps[m], DOMAIN maps[m])
        ELSE <<>>

\* outVec of getSensors(aType).
SensorsOfType(maps, aType) ==
    IF aType \in DOMAIN SensorTypes
        THEN PushAll(maps[SensorTypes[aType]], DOMAIN maps[SensorTypes[aType]])
        ELSE <<>>

GetSensors ==
    /\ pc = "idle"
    /\ \E aType \in DOMAIN SensorTypes \cup OtherSensorTypes :
        last' = [NoCall EXCEPT !.op = "getSensors",
                               !.arg = aType,
                               !.ok = TRUE,
                               !.objs = SensorsOfType(sensorMaps, aType)]
    /\ UNCHANGED <<threads, driver, sensorMaps, sensors, pc, hist>>

(***************************************************************************)
(* The data accessors of the seven sensor classes (lines 112-502).         *)
(*                                                                         *)
(* The vendor driver's current sample is an input: size is the length of   *)
(* the data array the driver returns, sample the element of that array at  *)
(* the sensor's index.  A sample is [name, v]; its field f holds <<f, v>>, *)
(* so that two fields of a sample never hold the same value.               *)
(***************************************************************************)
Field(sample, f) == <<f, sample.v>>

\* The fields an accessor copies, in the order of its arguments.
Copied(sample, fields) == [i \in DOMAIN fields |-> Field(sample, fields[i])]

\* The labels driver d reports for the data array a class reads, which are
\* the labels the table of the class is filled from.
LabelsFor(d, class) ==
    CASE class = "virtualLinkKinSensorsMap" -> d.linkLabels
      [] class = "virtualJointKinSensorsMap" -> d.jointLabels
      [] OTHER -> d.sensorLabels

DriverLabels(class) == LabelsFor(driver, class)

\* The method of the driver that returns the data array of a class.
DataSampleOf(class) ==
    CASE class = "virtualLinkKinSensorsMap" -> "getLinkDataSample"
      [] class = "virtualJointKinSensorsMap" -> "getJointDataSample"
      [] OTHER -> "getSensorDataSample"

\* The lengths the driver's data array may have: one element per label, or
\* no element yet.
SampleSizes(class) == {0, Len(DriverLabels(class))}

\* The names the sample at index idx may carry: the label the driver
\* reported at that position, or the name of the sensor that asks.
SampleNames(class, idx, m_name) ==
    {m_name} \cup (IF idx < Len(DriverLabels(class))
                       THEN {DriverLabels(class)[idx + 1]}
                       ELSE {})

\* The record of an accessor call before its outcome is known.
AccessorCall(op, self, fields) ==
    [NoCall EXCEPT !.op = op, !.self = self,
                   !.calls = <<DataSampleOf(self[1])>>,
                   !.out0 = [i \in DOMAIN fields |-> Unset],
                   !.out = [i \in DOMAIN fields |-> Unset]]

\* What reading sensorData gives.  The accessor binds const auto& sensorData
\* to an element of what get<Kind>DataSample() returns, and XSensMVNDriver.h
\* says whether that is a reference to the driver's own sample or a copy.
\* With a reference every read sees the sample ("sample").  With a copy the
\* temporary is destroyed at the end of the declaration and every later
\* read of sensorData is undefined: the memory may still hold the sample
\* ("sample"), the name read back may differ from every name, so that the
\* name test fails ("destroyed"), or the read may end the call ("crash").
SampleReads == {"sample", "destroyed", "crash"}

\* The body every accessor shares.  self is the sensor the method is called
\* on, table the table its index is looked up in, fields the fields copied
\* to the arguments, byReference whether the arguments are references.
\*   data.at(table.at(m_name).driverIndex): either at() throws
\*   std::out_of_range, for a name that is no key or an index past the end;
\*   m_name != sensorData.name: return false;
\*   otherwise the fields are assigned to the arguments: return true.
\* A call ended by the read of a destroyed sample has fault
\* "dangling_reference" and no sample.
Accessor(op, self, table, fields, byReference) ==
    /\ pc = "idle"
    /\ self \in DOMAIN sensors
    /\ LET m_name == sensors[self].m_name
           call == AccessorCall(op, self, fields)
       IN  IF m_name \notin DOMAIN sensorMaps[table]
               THEN last' = [call EXCEPT !.fault = "out_of_range"]
               ELSE LET idx == sensorMaps[table][m_name].driverIndex
                    IN  \E size \in SampleSizes(self[1]) :
                           IF idx >= size
                               THEN last' = [call EXCEPT
                                                !.fault = "out_of_range",
                                                !.index = idx,
                                                !.size = size]
                               ELSE \E name \in SampleNames(self[1], idx, m_name),
                                       v \in Vals, read \in SampleReads :
                                       LET sample == [name |-> name, v |-> v]
                                           read_call == [call EXCEPT !.index = idx,
                                                                     !.size = size]
                                       IN  last' =
                                             CASE read = "crash" ->
                                                    [read_call EXCEPT
                                                       !.fault = "dangling_reference"]
                                               [] read = "destroyed" ->
                                                    [read_call EXCEPT
                                                       !.sample = sample]
                                               [] read = "sample" ->
                                                    [read_call EXCEPT
                                                       !.sample = sample,
                                                       !.ok = (m_name = name),
                                                       !.out =
                                                         IF m_name = name
                                                               /\ byReference
                                                             THEN Copied(sample,
                                                                         fields)
                                                             ELSE @]
    /\ UNCHANGED <<threads, driver, sensorMaps, sensors, pc, hist>>

\* The sensor objects of a class.
Objects(class) == {a \in DOMAIN sensors : a[1] = class}

getFreeBodyAcceleration ==
    \E self \in Objects("freeBodyAccerlerationSensorsMap") :
        Accessor("getFreeBodyAcceleration", self,
                 "freeBodyAccerlerationSensorsMap",
                 <<"freeBodyAcceleration">>, TRUE)

getPosition ==
    \E self \in Objects("positionSensorsMap") :
        Accessor("getPosition", self, "positionSensorsMap",
                 <<"position">>, TRUE)

getOrientationAsQuaternion ==
    \E self \in Objects("orientationSensorsMap") :
        Accessor("getOrientationAsQuaternion", self, "orientationSensorsMap",
                 <<"orientation">>, TRUE)

\* getPose looks its index up in orientationSensorsMap (line 266).
getPose ==
    \E self \in Objects("poseSensorsMap") :
        Accessor("getPose", self, "orientationSensorsMap",
                 <<"orientation", "position">>, TRUE)

getMagneticField ==
    \E self \in Objects("magnetometersMap") :
        Accessor("getMagneticField", self, "magnetometersMap",
                 <<"magneticField">>, TRUE)

getLinkAcceleration ==
    \E self \in Objects("virtualLinkKinSensorsMap") :
        Accessor("getLinkAcceleration", self, "virtualLinkKinSensorsMap",
                 <<"linearAcceleration", "angularAcceleration">>, TRUE)

getLinkPose ==
    \E self \in Objects("virtualLinkKinSensorsMap") :
        Accessor("getLinkPose", self, "virtualLinkKinSensorsMap",
                 <<"position", "orientation">>, TRUE)

getLinkVelocity ==
    \E self \in Objects("virtualLinkKinSensorsMap") :
        Accessor("getLinkVelocity", self, "virtualLinkKinSensorsMap",
                 <<"linearVelocity", "angularVelocity">>, TRUE)

\* The three joint accessors take their argument by value (Vector3, not
\* Vector3&): the assignment changes the callee's copy.
getJointAnglesAsRPY ==
    \E self \in Objects("virtualJointKinSensorsMap") :
        Accessor("getJointAnglesAsRPY", self, "virtualJointKinSensorsMap",
                 <<"angles">>, FALSE)

getJointVelocities ==
    \E self \in Objects("virtualJointKinSensorsMap") :
        Accessor("getJointVelocities", self, "virtualJointKinSensorsMap",
                 <<"velocities">>, FALSE)

getJointAccelerations ==
    \E self \in Objects("virtualJointKinSensorsMap") :
        Accessor("getJointAccelerations", self, "virtualJointKinSensorsMap",
                 <<"accelerations">>, FALSE)

(***************************************************************************)
(* Control operations called from two threads at the same time.  The code  *)
(* takes no lock: the threads interleave at every write of a sensor's      *)
(* m_status, and the last write to a sensor is the one that stays.         *)
(***************************************************************************)

\* The tables in the order setAllSensorStates walks them (lines 518-538).
MapOrder ==
    <<"freeBodyAccerlerationSensorsMap", "positionSensorsMap",
      "orientationSensorsMap", "poseSensorsMap", "magnetometersMap",
      "virtualLinkKinSensorsMap", "virtualJointKinSensorsMap">>

\* The objects setAllSensorStates visits, in order, from table i on.
RECURSIVE WalkTables(_, _)
WalkTables(maps, i) ==
    IF i > Len(MapOrder)
        THEN <<>>
        ELSE PushAll(maps[MapOrder[i]], DOMAIN maps[MapOrder[i]])
                 \o WalkTables(maps, i + 1)

\* The status a control operation sets after the driver's answer.
StatusAfter(op, success) ==
    CASE op = "calibrate" -> CalibrateStatus(success)
      [] op = "abortCalibration" -> AbortCalibrationStatus(success)
      [] op = "startAcquisition" -> StartAcquisitionStatus(success)
      [] op = "stopAcquisition" -> StopAcquisitionStatus(success)

\* Thread t enters a control operation and passes the test of the driver
\* pointer; calibrate starts setAllSensorStates(Calibrating) (line 791), the
\* others call the driver at once.
ThreadCall(t) ==
    /\ threads[t].at = "idle"
    /\ driver.exists
    /\ \E op \in ControlOps :
          threads' = [threads EXCEPT ![t] =
                         IF op = "calibrate"
                             THEN [op |-> op, at |-> "setting",
                                   status |-> "Calibrating",
                                   todo |-> WalkTables(sensorMaps, 1),
                                   then |-> "driver", ok |-> FALSE]
                             ELSE [NoThreadCall EXCEPT !.op = op,
                                                       !.at = "driver"]]
    /\ UNCHANGED <<driver, sensorMaps, sensors, pc, hist, last>>

\* One setStatus(aStatus) of the loops of setAllSensorStates.
ThreadSetStatus(t) ==
    /\ threads[t].at = "setting"
    /\ threads[t].todo # <<>>
    /\ sensors' = [sensors EXCEPT ![Head(threads[t].todo)].m_status =
                                      threads[t].status]
    /\ threads' = [threads EXCEPT ![t].todo = Tail(@)]
    /\ UNCHANGED <<driver, sensorMaps, pc, hist, last>>

\* setAllSensorStates returns: calibrate goes on to the driver (line 793),
\* and after the driver's answer the operation returns that answer.
ThreadLoopEnd(t) ==
    /\ threads[t].at = "setting"
    /\ threads[t].todo = <<>>
    /\ threads' = [threads EXCEPT ![t].at = threads[t].then]
    /\ last' = IF threads[t].then = "returned"
                   THEN [NoCall EXCEPT !.op = threads[t].op,
                                       !.answer = threads[t].ok,
                                       !.ok = threads[t].ok,
                                       !.calls = <<threads[t].op>>]
                   ELSE last
    /\ UNCHANGED <<driver, sensorMaps, sensors, pc, hist>>

\* The vendor driver answers thread t, which starts setAllSensorStates with
\* the status of the branch taken.
ThreadDriverReturn(t) ==
    /\ threads[t].at = "driver"
    /\ \E success \in BOOLEAN :
          threads' = [threads EXCEPT ![t] =
                         [op |-> threads[t].op, at |-> "setting",
                          status |-> StatusAfter(threads[t].op, success),
                          todo |-> WalkTables(sensorMaps, 1),
                          then |-> "returned", ok |-> success]]
    /\ UNCHANGED <<driver, sensorMaps, sensors, pc, hist, last>>

Concurrent ==
    \E t \in Threads :
        \/ ThreadCall(t)
        \/ ThreadSetStatus(t)
        \/ ThreadLoopEnd(t)
        \/ ThreadDriverReturn(t)

\* The adapter after an open that returned true, for a suit of one sensor
\* at most, before any thread calls.
InitOpened ==
    \E sensorNames \in {l \in SensorLabelLists : Len(l) <= 1},
       linkNames \in LinkLabelLists, jointNames \in JointLabelLists :
        LET st == FillTables([maps |-> [m \in MapNames |-> EmptyMap],
                              heap |-> EmptyHeap],
                             sensorNames, linkNames, jointNames)
        IN  /\ driver = NewDriver(MinimalConfig, sensorNames, linkNames,
                                  jointNames)
            /\ sensorMaps = st.maps
            /\ sensors = st.heap
            /\ pc = "idle"
            /\ hist = [NoHist EXCEPT !.openOk = TRUE]
            /\ last = [NoCall EXCEPT !.op = "open",
                                     !.config = MinimalConfig,
                                     !.ok = TRUE,
                                     !.calls = <<"XSensMVNDriver",
                                                 "configureAndConnect",
                                                 "getSuitSensorLabels",
                                                 "getSuitLinkLabels",
                                                 "getSuitJointLabels">>]
            /\ threads = [t \in Threads |-> NoThreadCall]

SpecConcurrent == InitOpened /\ [][Concurrent]_vars

\* The calls that change the driver, the tables or the sensors.
Lifecycle ==
    \/ Open
    \/ Close
    \/ ControlWithoutDriver
    \/ CalibrateCall
    \/ CalibrateReturn
    \/ AbortCalibration
    \/ StartAcquisition
    \/ StopAcquisition

\* The calls that only read.
Queries ==
    \/ BodyDimensionCall
    \/ GetStatus
    \/ GetTimeStamp
    \/ GetSensorByName
    \/ GetSensors

DataAccess ==
    \/ getFreeBodyAcceleration
    \/ getPosition
    \/ getOrientationAsQuaternion
    \/ getPose
    \/ getMagneticField
    \/ getLinkAcceleration
    \/ getLinkPose
    \/ getLinkVelocity
    \/ getJointAnglesAsRPY
    \/ getJointVelocities
    \/ getJointAccelerations

Next == Lifecycle \/ Queries \/ DataAccess

Spec == Init /\ [][Next]_vars

\* open and the calls that only read.
NextRead == Open \/ Queries \/ DataAccess

SpecRead == Init /\ [][NextRead]_vars

\* The calls that change state, without the calls that only read.
SpecLifecycle == Init /\ [][Lifecycle]_vars

\* The calls that change state, and getStatus.
NextStatus == Lifecycle \/ GetStatus

SpecStatus == Init /\ [][NextStatus]_vars

\* The calls that change state, and getSensors.
NextSensors == Lifecycle \/ GetSensors

SpecSensors == Init /\ [][NextSensors]_vars

\* The calls that change state, and the calls about body dimensions.
NextControl == Lifecycle \/ BodyDimensionCall

SpecControl == Init /\ [][NextControl]_vars

\* The calls up to the first control operation that returns: open and close
\* any number of times, then one control operation.
FirstControl ==
    /\ last.op \in {"none", "open", "close"}
    /\ Lifecycle

SpecFirstControl == Init /\ [][FirstControl]_vars

\* The first call made on a new adapter is open, with any configuration.
FirstOpen ==
    /\ last.op = "none"
    /\ \E config \in AllConfigs : OpenWith(config)

SpecOpen == Init /\ [][FirstOpen]_vars

(***************************************************************************)
(* The claims.                                                             *)
(***************************************************************************)
\* A control operation that reached the vendor driver has just returned.
ControlReturned(op) ==
    /\ pc = "idle"
    /\ last.op = op
    /\ last.calls # <<>>

AllSensorsIn(statuses) ==
    \A a \in DOMAIN sensors : sensors[a].m_status \in statuses

\* C1: whenever the vendor driver reports failure to calibrate,
\* abortCalibration, startAcquisition or stopAcquisition, the operation
\* returns false and every sensor of every type ends with status Error or
\* Unknown.
C1_FailureMarksErrorOrUnknown ==
    \A op \in ControlOps :
        (ControlReturned(op) /\ ~last.answer) =>
            /\ ~last.ok
            /\ AllSensorsIn({"Error", "Unknown"})

\* C2: every public operation reports a failure only as a false or null
\* return value: no call lets an exception escape and no call uses the
\* driver object while it is absent.
C2_NoExceptionNoNullDriver ==
    last.fault = "none"

AccessorOps ==
    {"getFreeBodyAcceleration", "getPosition", "getOrientationAsQuaternion",
     "getPose", "getMagneticField", "getLinkAcceleration", "getLinkPose",
     "getLinkVelocity", "getJointAnglesAsRPY", "getJointVelocities",
     "getJointAccelerations"}

\* The fields of the driver's sample an accessor is to give back, in the
\* order of its output arguments.
CorrespondingFields(op) ==
    CASE op = "getFreeBodyAcceleration" -> <<"freeBodyAcceleration">>
      [] op = "getPosition" -> <<"position">>
      [] op = "getOrientationAsQuaternion" -> <<"orientation">>
      [] op = "getPose" -> <<"orientation", "position">>
      [] op = "getMagneticField" -> <<"magneticField">>
      [] op = "getLinkAcceleration" -> <<"linearAcceleration", "angularAcceleration">>
      [] op = "getLinkPose" -> <<"position", "orientation">>
      [] op = "getLinkVelocity" -> <<"linearVelocity", "angularVelocity">>
      [] op = "getJointAnglesAsRPY" -> <<"angles">>
      [] op = "getJointVelocities" -> <<"velocities">>
      [] op = "getJointAccelerations" -> <<"accelerations">>

\* An accessor has returned a boolean.
AccessorReturned ==
    last.op \in AccessorOps /\ last.fault = "none"

\* C3: whenever an accessor returns true the caller's output arguments hold
\* the corresponding fields of the driver's sample at the sensor's index;
\* whenever it returns false the output arguments are unchanged.
C3_OutputHoldsSample ==
    AccessorReturned =>
        IF last.ok
            THEN last.out = [i \in DOMAIN last.out |->
                                <<CorrespondingFields(last.op)[i], last.sample.v>>]
            ELSE last.out = last.out0

\* The sample the accessor read carries the label the driver reported at
\* the position the sample was read from.
SampleCarriesDriverLabel ==
    LET class == last.self[1]
        idx == sensorMaps[class][sensors[last.self].m_name].driverIndex
    IN  /\ last.size = Len(DriverLabels(class))
        /\ last.sample.name = DriverLabels(class)[idx + 1]

\* C4: after a successful open, when the driver's sample at position i is
\* named by the label the driver reported at position i, the name check of
\* an accessor does not fail: the accessor returns true.
C4_NameCheckPasses ==
    (AccessorReturned /\ hist.openOk /\ SampleCarriesDriverLabel) => last.ok

\* A step of any call but open.
NotOpenStep ==
    last'.op # "open" \/ pc' # pc

\* C5: no call but open adds, removes or changes an entry of a table: its
\* name, its sensor object, its driver index.
C5_TablesFrozen ==
    [][NotOpenStep =>
         /\ sensorMaps' = sensorMaps
         /\ DOMAIN sensors' = DOMAIN sensors
         /\ \A a \in DOMAIN sensors : sensors'[a].m_name = sensors[a].m_name]_vars

\* Calls of each kind have been made on filled tables: a control operation
\* has changed the status of the sensors and an accessor has read one.
C5_Witness ==
    /\ \A m \in MapNames : DOMAIN sensorMaps[m] # {}
    /\ last.op = "getLinkPose"
    /\ last.ok
    /\ AllSensorsIn({"WaitingForFirstRead"})

TablesEmpty ==
    \A m \in MapNames : DOMAIN sensorMaps[m] = {}

\* Table m of maps holds one entry per distinct label driver d reports for
\* it, keyed by wearable name, type prefix and label, whose driverIndex is a
\* position of the label in the driver's list.
TableMatches(maps, d, m) ==
    LET labels == LabelsFor(d, m)
    IN  /\ DOMAIN maps[m] = {Prefix(m) \o labels[i] : i \in DOMAIN labels}
        /\ \A i \in DOMAIN labels :
              LET e == maps[m][Prefix(m) \o labels[i]]
              IN  /\ e.driverIndex < Len(labels)
                  /\ labels[e.driverIndex + 1] = labels[i]

\* C6: the tables are empty until an open gets past configureAndConnect; the
\* first open that does leaves every table with one entry per distinct label
\* of its kind, with a driverIndex at which the label occurs.
C6_TablesBuiltFromLabels ==
    [][/\ ~hist.openOk => TablesEmpty
       /\ (~hist.openOk /\ hist'.openOk) =>
              \A m \in MapNames : TableMatches(sensorMaps', driver', m)]_vars

\* The first successful open met a label twice and kept one entry for it.
C6_Witness ==
    /\ last.op = "open"
    /\ last.ok
    /\ driver.sensorLabels = <<"Pelvis", "Pelvis">>
    /\ \A m \in MapNames : Cardinality(DOMAIN sensorMaps[m]) = 1

\* open has returned after creating a driver object.
DriverCreated ==
    last.op = "open" /\ last.calls # <<>>

\* C7: the default calibration type handed to the vendor driver is the value
\* of default-calibration-type when the key is present, and "" otherwise.
C7_DefaultCalibrationTypeHanded ==
    DriverCreated =>
        driver.config.defaultCalibrationType =
            (IF last.config.default_calibration_type.has
                 THEN last.config.default_calibration_type.val
                 ELSE "")

\* C8: the acquisition scenario handed to the vendor driver is the value of
\* acquisition-scenario when the key is present, and "" otherwise, whatever
\* other keys are present.
C8_AcquisitionScenarioHanded ==
    DriverCreated =>
        driver.config.acquisitionScenario =
            (IF last.config.acquisition_scenario.has
                 THEN last.config.acquisition_scenario.val
                 ELSE "")

\* The configuration open was called with has both required keys.
RundepsAndSuitGiven ==
    last.config.xsens_rundeps_dir.has /\ last.config.suit_config.has

\* An open step with a configuration that lacks a required key.
OpenStepLackingRequired ==
    /\ last'.op = "open"
    /\ pc' = pc
    /\ \/ ~last'.config.xsens_rundeps_dir.has
       \/ ~last'.config.suit_config.has

\* C9: open with a configuration that lacks xsens-rundeps-dir or suit-config
\* returns false, creates no driver object, calls no method of the vendor
\* driver and leaves the tables as they were.
C9_MissingRequiredKey ==
    [][OpenStepLackingRequired =>
         /\ ~last'.ok
         /\ last'.calls = <<>>
         /\ driver' = driver
         /\ sensorMaps' = sensorMaps
         /\ sensors' = sensors]_vars

\* open without suit-config has returned on an adapter whose earlier open
\* had filled the tables.
C9_Witness ==
    /\ last.op = "open"
    /\ ~last.config.suit_config.has
    /\ last.config.xsens_rundeps_dir.has
    /\ driver.exists
    /\ \A m \in MapNames : DOMAIN sensorMaps[m] # {}

\* The quality a label of the configuration names.
QualityNamed(label) ==
    CASE label = "Unknown" -> "UNKNOWN"
      [] label = "Good" -> "GOOD"
      [] label = "Acceptable" -> "ACCEPTABLE"
      [] label = "Poor" -> "POOR"
      [] label = "Failed" -> "FAILED"
      [] OTHER -> "POOR"

\* C10: the minimum calibration quality handed to the vendor driver is POOR
\* when minimum-calibration-quality-required is absent or names none of the
\* five qualities, and the quality named otherwise; with both required keys
\* present open fails only when configureAndConnect does.
C10_MinimumCalibrationQuality ==
    (last.op = "open" /\ RundepsAndSuitGiven) =>
        /\ DriverCreated
        /\ driver.config.minCalibrationQualityRequired =
               (IF last.config.minimum_calibration_quality_required.has
                    THEN QualityNamed(
                             last.config.minimum_calibration_quality_required.val)
                    ELSE "POOR")
        /\ ~last.ok => last.calls = <<"XSensMVNDriver", "configureAndConnect">>

\* open has returned true for a configuration whose quality label is none of
\* the five.
C10_Witness ==
    /\ last.op = "open"
    /\ last.ok
    /\ last.config.minimum_calibration_quality_required = Present("Excellent")
    /\ driver.config.minCalibrationQualityRequired = "POOR"

\* The value of a switch of output-stream-configuration in the configuration
\* open was called with, or default when the group or the key is absent.
SwitchGiven(key, default) ==
    LET group == last.config.output_stream_configuration
    IN  IF group.has /\ group.val[key].has THEN group.val[key].val ELSE default

\* C11: each of the three output-stream switches handed to the vendor driver
\* equals its own key of output-stream-configuration when present, and its
\* default otherwise (joint data off, link data on, sensor data on), whether
\* the whole group or only some of its keys are absent.
C11_OutputStreamSwitches ==
    DriverCreated =>
        /\ driver.config.outputStreamConfig.enableJointData =
               SwitchGiven("enable_joint_data", FALSE)
        /\ driver.config.outputStreamConfig.enableLinkData =
               SwitchGiven("enable_link_data", TRUE)
        /\ driver.config.outputStreamConfig.enableSensorData =
               SwitchGiven("enable_sensor_data", TRUE)

\* open has created a driver from a group that turns joint data on, turns
\* sensor data off and says nothing of link data.
C11_Witness ==
    /\ DriverCreated
    /\ last.config.output_stream_configuration.has
    /\ last.config.output_stream_configuration.val.enable_joint_data = Present(TRUE)
    /\ ~last.config.output_stream_configuration.val.enable_link_data.has
    /\ last.config.output_stream_configuration.val.enable_sensor_data = Present(FALSE)
    /\ driver.config.outputStreamConfig =
           [enableJointData |-> TRUE, enableLinkData |-> TRUE,
            enableSensorData |-> FALSE]

\* getStatus has returned from an adapter that has a driver object; last.arg
\* is the status the vendor driver reported to it.
GetStatusReturned ==
    last.op = "getStatus" /\ driver.exists

\* C12: getStatus is a function of the vendor driver's status alone: Ok
\* exactly for Recording, Calibrating exactly for Calibrating, Unknown exactly
\* for Unknown, and Error for Disconnected, Connected, Scanning and
\* CalibratedAndReadyToRecord, whatever statuses the sensors hold.
C12_StatusFromDriverAlone ==
    GetStatusReturned =>
        /\ last.fault = "none"
        /\ last.arg \in DriverStatus
        /\ (last.status = "Ok") <=> (last.arg = "Recording")
        /\ (last.status = "Calibrating") <=> (last.arg = "Calibrating")
        /\ (last.status = "Unknown") <=> (last.arg = "Unknown")
        /\ (last.arg \in {"Disconnected", "Connected", "Scanning",
                          "CalibratedAndReadyToRecord"}) => last.status = "Error"
        /\ last.status \in {"Ok", "Calibrating", "Unknown", "Error"}

\* getStatus has returned Error for a calibrated driver while every sensor
\* of every type holds WaitingForFirstRead.
C12_Witness ==
    /\ GetStatusReturned
    /\ last.arg = "CalibratedAndReadyToRecord"
    /\ last.status = "Error"
    /\ \A m \in MapNames : DOMAIN sensorMaps[m] # {}
    /\ AllSensorsIn({"WaitingForFirstRead"})

\* The table a by-name getter is for.
TableOfGetter(op) ==
    CHOOSE m \in MapNames : GetterOf(m) = op

Getters == {GetterOf(m) : m \in MapNames}

\* C13: each of the seven by-name getters returns null when the name is not
\* a key of its type's table, and otherwise the sensor object stored under
\* that key, whose sensor name is the name asked for; a name of a sensor of
\* another type yields null.
C13_GetterByName ==
    last.op \in Getters =>
        LET m == TableOfGetter(last.op)
        IN  /\ last.fault = "none"
            /\ last.arg \notin DOMAIN sensorMaps[m] => last.obj = NullPtr
            /\ last.arg \in DOMAIN sensorMaps[m] =>
                  /\ last.obj = sensorMaps[m][last.arg].xsSensor
                  /\ last.obj \in DOMAIN sensors
                  /\ last.obj[1] = m
                  /\ sensors[last.obj].m_name = last.arg
            /\ \A other \in MapNames \ {m} :
                  last.arg \in DOMAIN sensorMaps[other] => last.obj = NullPtr

\* getPoseSensor has returned null for the name of an orientation sensor
\* that exists, on tables that hold two sensors of each of these types.
C13_Witness ==
    /\ last.op = "getPoseSensor"
    /\ last.arg \in DOMAIN sensorMaps["orientationSensorsMap"]
    /\ last.obj = NullPtr
    /\ Cardinality(DOMAIN sensorMaps["poseSensorsMap"]) = 2

\* The table that holds the sensors of a supported type.
TableOfType(aType) ==
    CASE aType = "FreeBodyAccelerationSensor" -> "freeBodyAccerlerationSensorsMap"
      [] aType = "PositionSensor" -> "positionSensorsMap"
      [] aType = "OrientationSensor" -> "orientationSensorsMap"
      [] aType = "PoseSensor" -> "poseSensorsMap"
      [] aType = "Magnetometer" -> "magnetometersMap"
      [] aType = "VirtualLinkKinSensor" -> "virtualLinkKinSensorsMap"
      [] aType = "VirtualSphericalJointKinSensor" -> "virtualJointKinSensorsMap"

SupportedTypes ==
    {"FreeBodyAccelerationSensor", "PositionSensor", "OrientationSensor",
     "PoseSensor", "Magnetometer", "VirtualLinkKinSensor",
     "VirtualSphericalJointKinSensor"}

\* A step of getSensors.
GetSensorsStep ==
    pc = "idle" /\ pc' = pc /\ last'.op = "getSensors"

\* list holds exactly the objects of table m of maps, each once.
ListsTable(list, maps, m) ==
    /\ {list[i] : i \in DOMAIN list} = {maps[m][k].xsSensor : k \in DOMAIN maps[m]}
    /\ Len(list) = Cardinality(DOMAIN maps[m])
    /\ \A i, j \in DOMAIN list : list[i] = list[j] => i = j

\* C14: getSensors(type) returns, for each of the seven supported types,
\* exactly the sensor objects of that type's table, each once, and the empty
\* list for any other type; it changes no table and no sensor status.
C14_GetSensorsListsTable ==
    [][GetSensorsStep =>
         /\ sensorMaps' = sensorMaps
         /\ sensors' = sensors
         /\ IF last'.arg \in SupportedTypes
                THEN ListsTable(last'.objs, sensorMaps, TableOfType(last'.arg))
                ELSE last'.objs = <<>>]_vars

\* getSensors has listed two pose sensors while every sensor holds Ok.
C14_Witness ==
    /\ last.op = "getSensors"
    /\ last.arg = "PoseSensor"
    /\ Len(last.objs) = 2
    /\ \A i \in DOMAIN last.objs : last.objs[i][1] = "poseSensorsMap"
    /\ AllSensorsIn({"Ok"})

\* getPose has been called, after a successful open, on a pose sensor that
\* getPoseSensor returns.
GetPoseCalled ==
    /\ last.op = "getPose"
    /\ hist.openOk
    /\ \E name \in DOMAIN sensorMaps["poseSensorsMap"] :
          last.self = SensorByName(sensorMaps, "poseSensorsMap", name)

\* C15: getPose on a pose sensor obtained from getPoseSensor after a
\* successful open finds the index recorded for the sensor's name in the
\* pose table, and when it returns true its arguments hold the orientation
\* and the position of the driver's sample at that index.
C15_GetPoseFindsOwnIndex ==
    GetPoseCalled =>
        /\ last.index =
               sensorMaps["poseSensorsMap"][sensors[last.self].m_name].driverIndex
        /\ (last.fault = "none" /\ last.ok) =>
               last.out = <<Field(last.sample, "orientation"),
                            Field(last.sample, "position")>>

\* The status a control operation leaves when the driver reports success.
StatusAfterSuccess(op) ==
    CASE op = "calibrate" -> "WaitingForFirstRead"
      [] op = "abortCalibration" -> "Unknown"
      [] op = "startAcquisition" -> "Ok"
      [] op = "stopAcquisition" -> "WaitingForFirstRead"

\* C16: a control operation called while a driver object exists returns the
\* boolean the vendor driver returned, and when that is true all sensors of
\* all types end with WaitingForFirstRead after calibrate, Unknown after
\* abortCalibration, Ok after startAcquisition, WaitingForFirstRead after
\* stopAcquisition; while the driver's calibrate runs all sensors hold
\* Calibrating, and none holds it once calibrate has returned.
C16_SuccessMarksAllSensors ==
    /\ \A op \in ControlOps :
          ControlReturned(op) =>
              /\ last.ok = last.answer
              /\ last.ok => AllSensorsIn({StatusAfterSuccess(op)})
    /\ pc = "calibrate" => AllSensorsIn({"Calibrating"})
    /\ ControlReturned("calibrate") => AllSensorsIn(SensorStatus \ {"Calibrating"})

\* calibrate has returned true on tables that hold sensors of all types.
C16_Witness ==
    /\ ControlReturned("calibrate")
    /\ last.ok
    /\ \A m \in MapNames : DOMAIN sensorMaps[m] # {}
    /\ AllSensorsIn({"WaitingForFirstRead"})

\* C17: a control operation (calibrate, abortCalibration, startAcquisition,
\* stopAcquisition, setBodyDimensions, getBodyDimensions, getBodyDimension)
\* reaches the vendor driver only if some earlier open returned true; before
\* any open and after an open that returned false it returns false without
\* calling the driver.
C17_DriverReachedOnlyAfterOpen ==
    ~hist.openOk =>
        /\ pc # "calibrate"
        /\ last.op \in ControlOps \cup BodyDimensionOps =>
               (last.calls = <<>> /\ ~last.ok)

\* All sensors of all tables hold one and the same status.
OneStatus ==
    \A a, b \in Tabled(sensorMaps) : sensors[a].m_status = sensors[b].m_status

\* C18: with operations called one at a time, after any sequence of open,
\* calibrate, abortCalibration, startAcquisition, stopAcquisition and close,
\* whenever no operation is in progress all sensors in all seven tables hold
\* one and the same status, which is Unknown right after open.
C18_OneStatusWhenIdle ==
    pc = "idle" =>
        /\ OneStatus
        /\ (last.op = "open" /\ last.ok) => AllSensorsIn({"Unknown"})

\* Some sensor holds status.
SomeSensorIn(status) ==
    \E a \in DOMAIN sensors : sensors[a].m_status = status

\* The first control operation made on the adapter has returned: it is the
\* only control operation that has.
FirstControlReturned ==
    last.op \in ControlOps

\* C19: a sensor holds Ok only if some earlier startAcquisition returned
\* true, and holds WaitingForFirstRead only if some earlier calibrate or
\* stopAcquisition returned true.  Stated for the calls up to the first
\* control operation that returns, where that operation is the only earlier
\* one there is.
C19_StatusTellsHistory ==
    /\ ~FirstControlReturned =>
          (~SomeSensorIn("Ok") /\ ~SomeSensorIn("WaitingForFirstRead"))
    /\ FirstControlReturned =>
          /\ SomeSensorIn("Ok") =>
                (last.op = "startAcquisition" /\ last.ok)
          /\ SomeSensorIn("WaitingForFirstRead") =>
                (last.op \in {"calibrate", "stopAcquisition"} /\ last.ok)

\* Both threads have returned from their control operations.
BothReturned ==
    \A t \in Threads : threads[t].at = "returned"

\* C20: when two control operations run at the same time on different
\* threads, then once both have returned all sensors of all types hold one
\* and the same status, the final status one of the two operations sets.
C20_OneStatusAfterBoth ==
    BothReturned =>
        \E t \in Threads :
            AllSensorsIn({StatusAfter(threads[t].op, threads[t].ok)})

\* List b holds the elements of list a, as many times each, in any order.
IsPermutation(a, b) ==
    /\ Len(a) = Len(b)
    /\ \A i \in DOMAIN a :
          Cardinality({j \in DOMAIN a : a[j] = a[i]}) =
              Cardinality({j \in DOMAIN b : b[j] = a[i]})

\* The label lists of driver d2 are those of driver d1.
SameLabelLists(d1, d2) ==
    \A m \in MapNames : LabelsFor(d2, m) = LabelsFor(d1, m)

\* The label lists of driver d2 are those of driver d1 in another order.
ReorderedLabelLists(d1, d2) ==
    /\ \A m \in MapNames : IsPermutation(LabelsFor(d1, m), LabelsFor(d2, m))
    /\ ~SameLabelLists(d1, d2)

\* Every entry of every table of maps has a driverIndex at which the list
\* of driver d holds the entry's label.
IndexesPointAtLabels(maps, d) ==
    \A m \in MapNames :
        \A key \in DOMAIN maps[m] :
            LET labels == LabelsFor(d, m)
                idx == maps[m][key].driverIndex
            IN  /\ idx < Len(labels)
                /\ Prefix(m) \o labels[idx + 1] = key

\* A call of open that returns true on an adapter whose tables were built
\* by an earlier open from the lists of the driver it has.
SecondOpenStep ==
    /\ hist.openOk
    /\ \A m \in MapNames : TableMatches(sensorMaps, driver, m)
    /\ pc' = pc
    /\ last'.op = "open"
    /\ last'.ok

\* C21: a second open after a successful open leaves the seven tables, their
\* sensor objects, driver indexes and sensor statuses as they were when the
\* driver reports the same label lists; when the driver reports the labels
\* in another order, every entry's driverIndex still is a position of the
\* new driver's list at which the entry's label occurs.
C21_SecondOpenKeepsIndexes ==
    [][SecondOpenStep =>
         /\ SameLabelLists(driver, driver') =>
                (sensorMaps' = sensorMaps /\ sensors' = sensors)
         /\ ReorderedLabelLists(driver, driver') =>
                IndexesPointAtLabels(sensorMaps', driver')]_vars

\* The first half of C21 alone: with the same label lists the second open
\* changes neither the tables nor the sensors.
SecondOpenSameLists ==
    [][(SecondOpenStep /\ SameLabelLists(driver, driver')) =>
           (sensorMaps' = sensorMaps /\ sensors' = sensors)]_vars

====
